---- MODULE Spec2Model ----
(***************************************************************************)
(* Model of the Kinesis stream handler of src/index.ts: one invocation of  *)
(* `handler` over a batch of records, with the pure helpers parseEvent,    *)
(* transformData and validateData, and the awaited publishEvent call.      *)
(*                                                                         *)
(* JavaScript values are tagged records (field k names the type).  A       *)
(* number n is kept as the pair (hi, lo) with n = hi * MsPerDay + lo and   *)
(* 0 <= lo < MsPerDay, because epoch milliseconds of present-day dates do  *)
(* not fit the model checker's integers.                                   *)
(***************************************************************************)
EXTENDS Integers, Sequences, FiniteSets, TLC

\* Largest number of records in a batch (event.Records.length).
MaxRecords == 2

\* Milliseconds per day, the unit Date uses to split a time value.
MsPerDay == 86400000

\* Largest day number of a valid Date time value (8.64e15 ms).
MaxDateDays == 100000000

-----------------------------------------------------------------------------
(* JavaScript / JSON values *)

Undefined == [k |-> "undefined"]
JNull == [k |-> "null"]
JBool(b) == [k |-> "boolean", b |-> b]
JNum(hi, lo) == [k |-> "number", hi |-> hi, lo |-> lo]
JInt(n) == JNum(0, n)
JStr(s) == [k |-> "string", s |-> s]
JArr == [k |-> "array"]

\* ToBoolean, as applied by the `!x` tests of the handler.
Truthy(v) ==
  CASE v.k = "undefined" -> FALSE
    [] v.k = "null" -> FALSE
    [] v.k = "boolean" -> v.b
    [] v.k = "number" -> ~(v.hi = 0 /\ v.lo = 0)
    [] v.k = "string" -> v.s # ""
    [] OTHER -> TRUE

\* Property read v.f on a value that is neither null nor undefined.
Get(v, f) == IF v.k = "object" /\ f \in DOMAIN v THEN v[f] ELSE Undefined

-----------------------------------------------------------------------------
(* new Date(value).toISOString() *)

\* The time value new Date(v) holds: [nan |-> TRUE] for an Invalid Date.
NaNTime == [nan |-> TRUE, hi |-> 0, lo |-> 0]

TimeClip(hi, lo) ==
  IF hi < -MaxDateDays \/ hi > MaxDateDays \/ (hi = MaxDateDays /\ lo > 0)
    THEN NaNTime
    ELSE [nan |-> FALSE, hi |-> hi, lo |-> lo]

\* undefined and a string that is no date (the only strings of the model)
\* give NaN; null and booleans convert to numbers.
DateTimeValue(v) ==
  CASE v.k = "number" -> TimeClip(v.hi, v.lo)
    [] v.k = "null" -> TimeClip(0, 0)
    [] v.k = "boolean" -> TimeClip(0, IF v.b THEN 1 ELSE 0)
    [] OTHER -> NaNTime

\* Proleptic Gregorian date of a day number counted from 1970-01-01.
CivilFromDays(days) ==
  LET z == days + 719468
      era == z \div 146097
      doe == z - era * 146097
      yoe == (doe - (doe \div 1460) + (doe \div 36524) - (doe \div 146096)) \div 365
      doy == doe - (365 * yoe + (yoe \div 4) - (yoe \div 100))
      mp == (5 * doy + 2) \div 153
      d == doy - ((153 * mp + 2) \div 5) + 1
      m == IF mp < 10 THEN mp + 3 ELSE mp - 9
      y == yoe + era * 400 + (IF m <= 2 THEN 1 ELSE 0)
  IN [year |-> y, month |-> m, day |-> d]

RECURSIVE Pad(_, _)
Pad(n, width) ==
  IF width = 0 THEN "" ELSE Pad(n \div 10, width - 1) \o ToString(n % 10)

YearString(y) ==
  IF y >= 0 /\ y <= 9999 THEN Pad(y, 4)
  ELSE IF y < 0 THEN "-" \o Pad(-y, 6)
  ELSE "+" \o Pad(y, 6)

\* Date.prototype.toISOString of a valid time value.
ISOString(t) ==
  LET c == CivilFromDays(t.hi)
      hh == t.lo \div 3600000
      mm == (t.lo % 3600000) \div 60000
      ss == (t.lo % 60000) \div 1000
      ms == t.lo % 1000
  IN YearString(c.year) \o "-" \o Pad(c.month, 2) \o "-" \o Pad(c.day, 2)
       \o "T" \o Pad(hh, 2) \o ":" \o Pad(mm, 2) \o ":" \o Pad(ss, 2)
       \o "." \o Pad(ms, 3) \o "Z"

-----------------------------------------------------------------------------
(* Exceptions and log entries *)

NoException == [k |-> "none", message |-> ""]
Exception(name, message) == [k |-> name, message |-> message]

\* One console.error / console.log call: its first argument and the rest.
LogEntry(level, msg, detail) == [level |-> level, msg |-> msg, detail |-> detail]

-----------------------------------------------------------------------------
(* Inputs of one invocation *)

\* The text of record.kinesis.data after base64 decoding, by what JSON.parse
\* makes of it: a syntax error with its message, or the value it denotes.
Malformed(message) == [json |-> FALSE, message |-> message, value |-> Undefined]
Document(v) == [json |-> TRUE, message |-> "", value |-> v]
KinesisRecord(payload) == [data |-> payload]

BookingCompleted(timestamp, provider, orderId) ==
  [k |-> "object", timestamp |-> timestamp, product_provider |-> provider,
   orderId |-> orderId]

IncomingEvent(timestamp, type, nested) ==
  [k |-> "object", id |-> JStr("123"), partitionKey |-> JStr("key123"),
   timestamp |-> timestamp, type |-> type, booking_completed |-> nested]

\* The outer event's timestamp (2022-01-08T00:00:01.000Z) differs from every
\* nested one: 2023-11-14T14:13:54.567Z, 2024-02-29T23:59:59.999Z and
\* 1969-12-30T23:59:59.999Z.
OuterTimestamp == JNum(19000, 1000)
NestedTimestampA == JNum(19675, 51234567)
NestedTimestampB == JNum(19782, 86399999)

GoodNestedA == BookingCompleted(NestedTimestampA, JStr("Test Provider"), JInt(12345))
GoodNestedB == BookingCompleted(NestedTimestampB, JStr("Acme"), JInt(7))
GoodNestedC == BookingCompleted(JNum(-2, 86399999), JStr("Acme"), JInt(0))

\* Nested payloads that are present and carry a timestamp Date can convert.
WellFormedNested == {GoodNestedA, GoodNestedB, GoodNestedC}

\* Present nested payloads whose timestamp is missing, not numeric or out of
\* the range of Date, and a present payload that is no object at all.
BadTimestampNested ==
  { [k |-> "object", product_provider |-> JStr("Acme"), orderId |-> JInt(7)],
    BookingCompleted(JStr("abc"), JStr("Acme"), JInt(7)),
    BookingCompleted(JNum(MaxDateDays, 1), JStr("Acme"), JInt(7)),
    JBool(TRUE) }

BookingCompletedType == JStr("booking_completed")

Payloads ==
  { Malformed("Unexpected token i in JSON at position 0"),
    Document(JNull), Document(JInt(5)), Document(JArr),
    Document(JBool(FALSE)), Document(JStr("booking_completed")),
    Document(IncomingEvent(OuterTimestamp, JStr("other_event"), Undefined)),
    Document(IncomingEvent(OuterTimestamp, JStr("other_event"), GoodNestedA)),
    Document(IncomingEvent(OuterTimestamp, Undefined, GoodNestedA)),
    Document(IncomingEvent(OuterTimestamp, BookingCompletedType, Undefined)),
    Document(IncomingEvent(OuterTimestamp, BookingCompletedType, JNull)) }
  \cup { Document(IncomingEvent(OuterTimestamp, BookingCompletedType, n)) :
           n \in WellFormedNested \cup BadTimestampNested }

Records == { KinesisRecord(p) : p \in Payloads }

RECURSIVE SeqsUpTo(_, _)
SeqsUpTo(S, n) ==
  IF n = 0 THEN {<<>>}
  ELSE LET shorter == SeqsUpTo(S, n - 1)
       IN shorter \cup { Append(q, x) : q \in {r \in shorter : Len(r) = n - 1}, x \in S }

Batches == SeqsUpTo(Records, MaxRecords)

\* process.env.PUBLISH_URL: unset, empty or set.
SinkUrl == JStr("http://example.com/publish")
PublishUrls == {Undefined, JStr(""), SinkUrl}

\* What validate(data, schema) of jsonschema can answer.
ValidationResults ==
  { [valid |-> TRUE, errors |-> <<>>],
    [valid |-> FALSE,
     errors |-> <<[property |-> "instance.product_order_id_buyer",
                   message |-> "is not of a type(s) number"]>>] }

\* The errors client.post can reject with.
PostErrors == {Exception("Error", "Network error"),
               Exception("AxiosError", "Request failed with status code 500")}

-----------------------------------------------------------------------------
(* The helpers of src/index.ts.  Each returns what the call returns (ret),  *)
(* the exception it raises (thrown) and the log entries it writes (logs).   *)

Result(ret, thrown, logs) == [ret |-> ret, thrown |-> thrown, logs |-> logs]

\* parseEvent without the try/catch around JSON.parse.
parseEventUncaught(record) ==
  LET payload == record.data
  IN IF payload.json
       THEN Result(payload.value, NoException, <<>>)
       ELSE Result(Undefined, Exception("SyntaxError", payload.message), <<>>)

\* parseEvent(record): JSON.parse inside try/catch.  record.kinesis.data is a
\* string, on which Buffer.from(..., 'base64') does not throw.
parseEvent(record) ==
  LET payload == record.data
  IN IF payload.json
       THEN Result(payload.value, NoException, <<>>)
       ELSE Result(JNull, NoException,
                   <<LogEntry("error", "Error parsing JSON:", <<payload.message>>)>>)

\* A filter on the presence of the nested payload instead of the type.
isBookingCompletedByPayload(data) == Truthy(Get(data, "booking_completed"))

\* A filter that skips only the events carrying another type.
isBookingCompletedOrUntyped(data) ==
  Get(data, "type") = Undefined \/ Get(data, "type") = BookingCompletedType

\* A filter that lets every event with a type through.
isBookingCompletedAnyType(data) == Get(data, "type") # Undefined

\* data.type !== 'booking_completed', negated.
isBookingCompleted(data) == Get(data, "type") = BookingCompletedType

TransformedEvent(orderId, timestamp, provider) ==
  [k |-> "object", product_order_id_buyer |-> orderId, timestamp |-> timestamp,
   product_provider_buyer |-> provider]

\* The object literal of transformData, lines 52-56: toISOString raises a
\* RangeError on an Invalid Date.
buildTransformed(orderId, timestamp, provider) ==
  LET t == DateTimeValue(timestamp)
  IN IF t.nan
       THEN Result(Undefined, Exception("RangeError", "Invalid time value"), <<>>)
       ELSE Result(TransformedEvent(orderId, JStr(ISOString(t)), provider),
                   NoException, <<>>)

\* transformData without the test for an absent nested payload: reading a
\* property of undefined or null raises a TypeError.
transformDataUnchecked(event) ==
  LET nested == Get(event, "booking_completed")
  IN IF nested = Undefined \/ nested = JNull
       THEN Result(Undefined,
                   Exception("TypeError", "Cannot read properties of undefined"), <<>>)
       ELSE buildTransformed(Get(nested, "orderId"), Get(nested, "timestamp"),
                             Get(nested, "product_provider"))

\* transformData reading the outer event's timestamp.
transformDataOuterTimestamp(event) ==
  LET nested == Get(event, "booking_completed")
  IN IF ~Truthy(nested)
       THEN Result(JNull, NoException,
                   <<LogEntry("error", "Missing booking_completed data in event", <<>>)>>)
       ELSE buildTransformed(Get(nested, "orderId"), Get(event, "timestamp"),
                             Get(nested, "product_provider"))

\* transformData(event)
transformData(event) ==
  LET nested == Get(event, "booking_completed")
  IN IF ~Truthy(nested)
       THEN Result(JNull, NoException,
                   <<LogEntry("error", "Missing booking_completed data in event", <<>>)>>)
       ELSE buildTransformed(Get(nested, "orderId"), Get(nested, "timestamp"),
                             Get(nested, "product_provider"))

\* validateData that logs the violations and goes on to return true.
validateDataAlwaysTrue(data, validationResult) ==
  IF ~validationResult.valid
    THEN Result(JBool(TRUE), NoException,
                <<LogEntry("error", "Validation errors:",
                           [n \in 1..Len(validationResult.errors) |->
                              validationResult.errors[n].property \o " "
                                \o validationResult.errors[n].message])>>)
    ELSE Result(JBool(TRUE), NoException, <<>>)

\* validateData(data), with validationResult what jsonschema answered.
validateData(data, validationResult) ==
  IF ~validationResult.valid
    THEN Result(JBool(FALSE), NoException,
                <<LogEntry("error", "Validation errors:",
                           [n \in 1..Len(validationResult.errors) |->
                              validationResult.errors[n].property \o " "
                                \o validationResult.errors[n].message])>>)
    ELSE Result(JBool(TRUE), NoException, <<>>)

\* A test for an unset variable that lets the empty string through.
configMissingUndefinedOnly(url) == url = Undefined

\* !publishUrl
configMissing(url) == ~Truthy(url)

-----------------------------------------------------------------------------
(* One iteration of the for loop of handler, from the loop head to the      *)
(* `continue`, the awaited client.post or the exception that ends it.       *)

\* A stage run for a record with what it returned: "decode" (parseEvent),
\* "filter" (the type test), "transform" (transformData), "schema" (the
\* validate call of jsonschema), "validate" (validateData) and "publish"
\* (publishEvent with its data).
Stage(name, out) == [stage |-> name, out |-> out]

\* The "schema" stage also keeps the value handed to validate.
StageWithArg(name, arg, out) == [stage |-> name, arg |-> arg, out |-> out]

\* next: "continue" (next record), "await" (client.post was called with
\* call) or "throw" (an exception left the loop body).
Outcome(next, stages, logs, call, thrown) ==
  [next |-> next, stages |-> stages, logs |-> logs, call |-> call, thrown |-> thrown]

TransformationFailed ==
  LogEntry("error", "Transformation failed for a booking_completed event", <<>>)
InvalidEventData == LogEntry("error", "Invalid event data, not publishing", <<>>)

\* The loop body publishing every transformed record without validating it.
loopBodyUnvalidated(record, url, validationResult) ==
  LET p == parseEvent(record)
      data == p.ret
      t == transformData(data)
      transformedData == t.ret
      sDecode == <<Stage("decode", data)>>
      sFilter == Append(sDecode, Stage("filter", JBool(isBookingCompleted(data))))
      sTransform == Append(sFilter, Stage("transform", transformedData))
  IN IF p.thrown # NoException
       THEN Outcome("throw", sDecode, p.logs, <<>>, p.thrown)
     ELSE IF ~Truthy(data)
       THEN Outcome("continue", sDecode, p.logs, <<>>, NoException)
     ELSE IF ~isBookingCompleted(data)
       THEN Outcome("continue", sFilter, p.logs, <<>>, NoException)
     ELSE IF t.thrown # NoException
       THEN Outcome("throw", sTransform, p.logs \o t.logs, <<>>, t.thrown)
     ELSE IF ~Truthy(transformedData)
       THEN Outcome("continue", sTransform,
                    p.logs \o t.logs \o <<TransformationFailed>>, <<>>, NoException)
     ELSE Outcome("await", Append(sTransform, Stage("publish", transformedData)),
                  p.logs \o t.logs,
                  <<[url |-> url, data |-> transformedData]>>, NoException)

loopBody(record, url, validationResult) ==
  LET p == parseEvent(record)
      data == p.ret
      t == transformData(data)
      transformedData == t.ret
      v == validateData(transformedData, validationResult)
      sDecode == <<Stage("decode", data)>>
      sFilter == Append(sDecode, Stage("filter", JBool(isBookingCompleted(data))))
      sTransform == Append(sFilter, Stage("transform", transformedData))
      sValidate == sTransform
                     \o <<StageWithArg("schema", transformedData,
                                       JBool(validationResult.valid)),
                          Stage("validate", v.ret)>>
  IN IF p.thrown # NoException
       THEN Outcome("throw", sDecode, p.logs, <<>>, p.thrown)
     ELSE IF ~Truthy(data)
       THEN Outcome("continue", sDecode, p.logs, <<>>, NoException)
     ELSE IF ~isBookingCompleted(data)
       THEN Outcome("continue", sFilter, p.logs, <<>>, NoException)
     ELSE IF t.thrown # NoException
       THEN Outcome("throw", sTransform, p.logs \o t.logs, <<>>, t.thrown)
     ELSE IF ~Truthy(transformedData)
       THEN Outcome("continue", sTransform,
                    p.logs \o t.logs \o <<TransformationFailed>>, <<>>, NoException)
     ELSE IF v.ret.b
       THEN Outcome("await", Append(sValidate, Stage("publish", transformedData)),
                    p.logs \o t.logs \o v.logs,
                    <<[url |-> url, data |-> transformedData]>>, NoException)
     ELSE Outcome("continue", sValidate,
                  p.logs \o t.logs \o v.logs \o <<InvalidEventData>>, <<>>, NoException)

\* The loop going on to the next record without awaiting the call it made.
resumeWithoutAwait(next, i) ==
  CASE next = "continue" -> [pc |-> "ProcessingRecords", idx |-> i + 1]
    [] next = "await" -> [pc |-> "ProcessingRecords", idx |-> i + 1]
    [] OTHER -> [pc |-> "Failed", idx |-> i]

\* Where the handler stands after the loop body of record i: an awaited call
\* suspends it on record i until the call settles.
resume(next, i) ==
  CASE next = "continue" -> [pc |-> "ProcessingRecords", idx |-> i + 1]
    [] next = "await" -> [pc |-> "AwaitingPublish", idx |-> i]
    [] OTHER -> [pc |-> "Failed", idx |-> i]

\* publishEvent after client.post resolved.
PublishedSuccessfully == LogEntry("log", "Event published successfully", <<>>)

\* No catch clause: the rejection leaves the handler.
catchPublishErrorRethrow(error, i) ==
  [pc |-> "Failed", idx |-> i, thrown |-> error, logs |-> <<>>]

\* A catch clause that returns from the handler instead of going on.
catchPublishErrorReturn(error, i) ==
  [pc |-> "Done", idx |-> i, thrown |-> NoException,
   logs |-> <<LogEntry("error", "Error publishing event:", <<error.message>>)>>]

\* A success entry written whether or not the call succeeded.
catchPublishErrorLogsSuccess(error, i) ==
  [pc |-> "ProcessingRecords", idx |-> i + 1, thrown |-> NoException,
   logs |-> <<LogEntry("log", "Event published successfully", <<>>),
              LogEntry("error", "Error publishing event:", <<error.message>>)>>]

\* A catch clause that runs the record again after a failed call.
catchPublishErrorRetry(error, i) ==
  [pc |-> "ProcessingRecords", idx |-> i, thrown |-> NoException,
   logs |-> <<LogEntry("error", "Error publishing event:", <<error.message>>)>>]

\* The catch clause around `await publishEvent(...)` for record i.
catchPublishError(error, i) ==
  [pc |-> "ProcessingRecords", idx |-> i + 1, thrown |-> NoException,
   logs |-> <<LogEntry("error", "Error publishing event:", <<error.message>>)>>]

-----------------------------------------------------------------------------
(* State of one invocation *)

VARIABLES
  batch,        \* event.Records
  publishUrl,   \* process.env.PUBLISH_URL
  pc,           \* where the handler stands
  idx,          \* position of the for loop in batch (0 before the loop)
  trace,        \* the stages run so far, each with its record and result
  calls,        \* the client.post calls made so far
  outstanding,  \* the calls (positions in calls) that have not settled
  settled,      \* the settled calls with their outcome, in settling order
  logs,         \* the console.error / console.log entries written so far
  thrown        \* the exception the handler's promise rejected with

vars == <<batch, publishUrl, pc, idx, trace, calls, outstanding, settled, logs, thrown>>

Tag(entries, i) ==
  [n \in 1..Len(entries) |-> [x \in DOMAIN entries[n] \cup {"rec"} |->
                                 IF x = "rec" THEN i ELSE entries[n][x]]]

Init ==
  /\ batch \in Batches
  /\ publishUrl \in PublishUrls
  /\ pc = "CheckingConfig"
  /\ idx = 0
  /\ trace = <<>>
  /\ calls = <<>>
  /\ outstanding = {}
  /\ settled = <<>>
  /\ logs = <<>>
  /\ thrown = NoException

\* Lines 83-88: the configuration check.
CheckConfig ==
  /\ pc = "CheckingConfig"
  /\ IF configMissing(publishUrl)
       THEN /\ logs' = logs \o Tag(<<LogEntry("error", "PUBLISH_URL is not defined", <<>>)>>, 0)
            /\ pc' = "Aborted"
            /\ idx' = idx
       ELSE /\ logs' = logs
            /\ pc' = "ProcessingRecords"
            /\ idx' = 1
  /\ UNCHANGED <<batch, publishUrl, trace, calls, outstanding, settled, thrown>>

\* Line 87: the early return resolves the handler's promise.
ReturnAborted ==
  /\ pc = "Aborted"
  /\ pc' = "Done"
  /\ UNCHANGED <<batch, publishUrl, idx, trace, calls, outstanding, settled, logs, thrown>>

\* Lines 90-114: the loop body for batch[idx], up to its first suspension.
ProcessRecord ==
  /\ pc = "ProcessingRecords"
  /\ idx <= Len(batch)
  /\ \E validationResult \in ValidationResults :
     \E o \in {loopBody(batch[idx], publishUrl, validationResult)} :
     \E r \in {resume(o.next, idx)} :
          /\ pc' = r.pc
          /\ idx' = r.idx
          /\ trace' = trace \o Tag(o.stages, idx)
          /\ logs' = logs \o Tag(o.logs, idx)
          /\ calls' = calls \o Tag(o.call, idx)
          /\ outstanding' = IF o.call = <<>> THEN outstanding
                            ELSE outstanding \cup {Len(calls) + 1}
          /\ thrown' = o.thrown
  /\ UNCHANGED <<batch, publishUrl, settled>>

\* Line 115-116: the loop is exhausted and the handler returns.
FinishLoop ==
  /\ pc = "ProcessingRecords"
  /\ idx > Len(batch)
  /\ pc' = "Done"
  /\ UNCHANGED <<batch, publishUrl, idx, trace, calls, outstanding, settled, logs, thrown>>

\* client.post resolves: publishEvent logs and the loop goes on.
PostResolves ==
  /\ pc = "AwaitingPublish"
  /\ \E c \in outstanding :
       /\ outstanding' = outstanding \ {c}
       /\ settled' = Append(settled, [call |-> c, error |-> NoException])
       /\ logs' = logs \o Tag(<<PublishedSuccessfully>>, calls[c].rec)
  /\ pc' = "ProcessingRecords"
  /\ idx' = idx + 1
  /\ UNCHANGED <<batch, publishUrl, trace, calls, thrown>>

\* client.post rejects: the catch clause of line 109 runs.
PostRejects ==
  /\ pc = "AwaitingPublish"
  /\ \E c \in outstanding, error \in PostErrors :
       LET h == catchPublishError(error, idx)
       IN /\ outstanding' = outstanding \ {c}
          /\ settled' = Append(settled, [call |-> c, error |-> error])
          /\ logs' = logs \o Tag(h.logs, calls[c].rec)
          /\ pc' = h.pc
          /\ idx' = h.idx
          /\ thrown' = h.thrown
  /\ UNCHANGED <<batch, publishUrl, trace, calls>>

Next ==
  \/ CheckConfig
  \/ ReturnAborted
  \/ ProcessRecord
  \/ FinishLoop
  \/ PostResolves
  \/ PostRejects

Spec == Init /\ [][Next]_vars

-----------------------------------------------------------------------------
(* Vocabulary of the properties, stated on the content of the records *)

RecordIds == 1..Len(batch)

\* The record's pipeline, its publish call included, has settled.
Settled(i) == i \in RecordIds /\ idx > i

CallsFor(i) == {c \in 1..Len(calls) : calls[c].rec = i}
StagesOf(i) == SelectSeq(trace, LAMBDA e : e.rec = i)
StageNames(i) == [n \in 1..Len(StagesOf(i)) |-> StagesOf(i)[n].stage]
LogsOf(i) == SelectSeq(logs, LAMBDA e : e.rec = i)
HasStage(i, name) == \E n \in 1..Len(trace) : trace[n].rec = i /\ trace[n].stage = name
StageOut(i, name) ==
  LET n == CHOOSE m \in 1..Len(trace) : trace[m].rec = i /\ trace[m].stage = name
  IN trace[n].out

UrlUnset == publishUrl = Undefined \/ publishUrl = JStr("")

IsMalformed(record) == ~record.data.json
DecodedType(record) == Get(record.data.value, "type")
Nested(record) == Get(record.data.value, "booking_completed")
IsEligible(record) == record.data.json /\ DecodedType(record) = JStr("booking_completed")
NestedAbsent(record) == Nested(record) = Undefined \/ Nested(record) = JNull
NestedWellFormed(record) == Nested(record) \in WellFormedNested

\* The ISO-8601 strings of the nested timestamps of the well-formed payloads.
KnownISO(nested) ==
  CASE nested = GoodNestedA -> "2023-11-14T14:13:54.567Z"
    [] nested = GoodNestedB -> "2024-02-29T23:59:59.999Z"
    [] nested = GoodNestedC -> "1969-12-30T23:59:59.999Z"

ExpectedBody(record) ==
  [k |-> "object",
   product_order_id_buyer |-> Nested(record).orderId,
   timestamp |-> JStr(KnownISO(Nested(record))),
   product_provider_buyer |-> Nested(record).product_provider]

ExactlyOnePublish(i) ==
  /\ Cardinality(CallsFor(i)) = 1
  /\ \A c \in CallsFor(i) :
       calls[c] = [rec |-> i, url |-> publishUrl, data |-> ExpectedBody(batch[i])]

-----------------------------------------------------------------------------
(* C1: a per-record failure or skip at any stage never aborts the batch: no *)
(* exception leaves the handler, and when the sink URL is set the handler   *)
(* finishes only after it has decoded every record of the batch.            *)
C1_PerRecordErrorsContained ==
  /\ thrown = NoException
  /\ pc # "Failed"
  /\ (pc = "Done" /\ ~UrlUnset) => \A i \in RecordIds : HasStage(i, "decode")

(* C2 as stated: every settled record of type booking_completed with a      *)
(* present, well-formed nested payload has exactly one publish call, to the *)
(* sink URL, whose body carries the order id, the ISO-8601 string of the    *)
(* nested timestamp and the provider.                                       *)
C2_AlwaysPublishesWellFormed ==
  \A i \in RecordIds :
    (Settled(i) /\ IsEligible(batch[i]) /\ NestedWellFormed(batch[i]))
      => ExactlyOnePublish(i)

(* C2 amended: the same for the records whose transformed output the        *)
(* validator accepted; the transformed output is the body above, and a      *)
(* record whose output the validator rejected has no publish call.          *)
C2_PublishesAcceptedWellFormed ==
  \A i \in RecordIds :
    (Settled(i) /\ IsEligible(batch[i]) /\ NestedWellFormed(batch[i]))
      => /\ HasStage(i, "schema")
         /\ StageOut(i, "transform") = ExpectedBody(batch[i])
         /\ StageOut(i, "schema") = JBool(TRUE) => ExactlyOnePublish(i)
         /\ StageOut(i, "schema") = JBool(FALSE) => CallsFor(i) = {}

C2_Witness ==
  \E i \in RecordIds :
    /\ Settled(i) /\ IsEligible(batch[i]) /\ Nested(batch[i]) = GoodNestedA
    /\ batch[i].data.value.timestamp # Nested(batch[i]).timestamp
    /\ \E c \in CallsFor(i) :
         /\ calls[c].url = SinkUrl
         /\ calls[c].data.timestamp = JStr("2023-11-14T14:13:54.567Z")
         /\ calls[c].data.product_order_id_buyer = JInt(12345)
         /\ calls[c].data.product_provider_buyer = JStr("Test Provider")

(* C3: with the sink URL unset or empty no publish call is made, no record  *)
(* is decoded, transformed or validated, and the configuration error is     *)
(* logged exactly once (and nothing else is logged).                        *)
C3_NoUrlNoProcessing ==
  UrlUnset =>
    /\ calls = <<>>
    /\ trace = <<>>
    /\ idx = 0
    /\ pc \in {"CheckingConfig", "Aborted", "Done"}
    /\ logs = IF pc = "CheckingConfig" THEN <<>>
              ELSE <<[rec |-> 0, level |-> "error",
                      msg |-> "PUBLISH_URL is not defined", detail |-> <<>>]>>

C3_Witness ==
  /\ publishUrl = JStr("")
  /\ pc = "Done"
  /\ Len(batch) = 2
  /\ IsEligible(batch[1]) /\ NestedWellFormed(batch[1])
  /\ Len(logs) = 1

(* C4: when a publish call rejects, the handler catches it, logs one       *)
(* 'Error publishing event:' entry with the error's message and goes on to  *)
(* the next record in the state it would be in had the call resolved (same  *)
(* position, same batch, same calls, nothing thrown); and a handler that    *)
(* finishes has decoded every record, whatever publish calls failed.        *)
C4_PublishFailureContained ==
  /\ [][(/\ pc = "AwaitingPublish"
         /\ Len(settled') = Len(settled) + 1
         /\ settled'[Len(settled')].error # NoException)
        => /\ thrown' = NoException
           /\ logs' = Append(logs, [rec |-> idx, level |-> "error",
                                    msg |-> "Error publishing event:",
                                    detail |-> <<settled'[Len(settled')].error.message>>])
           /\ pc' = "ProcessingRecords"
           /\ idx' = idx + 1
           /\ outstanding' = {}
           /\ UNCHANGED <<batch, publishUrl, trace, calls>>]_vars
  /\ [](\A n \in 1..Len(settled) :
          (settled[n].error # NoException /\ pc = "Done")
            => \A j \in RecordIds : HasStage(j, "decode"))

C4_Witness ==
  /\ pc = "Done"
  /\ Len(settled) = 2
  /\ settled[1].error = Exception("Error", "Network error")
  /\ settled[2].error = NoException
  /\ calls[2].rec > calls[1].rec
  /\ \E n \in 1..Len(logs) :
       logs[n] = [rec |-> calls[1].rec, level |-> "error",
                  msg |-> "Error publishing event:", detail |-> <<"Network error">>]

(* C5: a record whose decoded type is not "booking_completed" never has a   *)
(* publish call, whatever else it contains.                                 *)
C5_IneligibleNeverPublished ==
  \A i \in RecordIds :
    (batch[i].data.json /\ DecodedType(batch[i]) # JStr("booking_completed"))
      => CallsFor(i) = {} /\ ~HasStage(i, "publish")

C5_Witness ==
  \E i \in RecordIds :
    /\ Settled(i) /\ pc = "Done"
    /\ DecodedType(batch[i]) = JStr("other_event")
    /\ Nested(batch[i]) = GoodNestedA
    /\ CallsFor(i) = {}

(* C6: for a malformed payload parseEvent returns the failure value null    *)
(* and logs the parse error; no exception leaves that record's loop body,   *)
(* no other stage runs for it and no publish call is made for it.           *)
C6_MalformedSkipped ==
  \A i \in RecordIds :
    IsMalformed(batch[i])
      => /\ CallsFor(i) = {}
         /\ ~(pc = "Failed" /\ idx = i)
         /\ HasStage(i, "decode")
              => /\ Settled(i)
                 /\ StagesOf(i) = <<[rec |-> i, stage |-> "decode", out |-> JNull]>>
                 /\ LogsOf(i) = <<[rec |-> i, level |-> "error",
                                   msg |-> "Error parsing JSON:",
                                   detail |-> <<batch[i].data.message>>]>>

C6_Witness ==
  \E i \in RecordIds :
    /\ IsMalformed(batch[i]) /\ Settled(i) /\ HasStage(i, "decode")
    /\ \E j \in RecordIds : j > i /\ CallsFor(j) # {}

(* C7: for a record of type "booking_completed" whose nested payload is     *)
(* absent the transform returns the failure value null, the validator is   *)
(* not consulted and no publish call is made.                               *)
C7_MissingNestedSkipped ==
  \A i \in RecordIds :
    (IsEligible(batch[i]) /\ NestedAbsent(batch[i]))
      => /\ CallsFor(i) = {}
         /\ ~HasStage(i, "schema") /\ ~HasStage(i, "validate")
         /\ ~(pc = "Failed" /\ idx = i)
         /\ Settled(i)
              => /\ StageNames(i) = <<"decode", "filter", "transform">>
                 /\ StageOut(i, "transform") = JNull
                 /\ \E n \in 1..Len(logs) :
                      logs[n].rec = i
                        /\ logs[n].msg = "Transformation failed for a booking_completed event"

C7_Witness ==
  \E i \in RecordIds :
    /\ IsEligible(batch[i]) /\ Nested(batch[i]) = Undefined
    /\ Settled(i) /\ pc = "Done" /\ HasStage(i, "transform")

(* C8: a record whose transformed output the schema validation rejected has *)
(* no publish call.                                                         *)
C8_RejectedNeverPublished ==
  \A i \in RecordIds :
    (HasStage(i, "schema") /\ StageOut(i, "schema") = JBool(FALSE))
      => CallsFor(i) = {} /\ ~HasStage(i, "publish")

C8_Witness ==
  \E i \in RecordIds :
    /\ HasStage(i, "schema") /\ StageOut(i, "schema") = JBool(FALSE)
    /\ NestedWellFormed(batch[i])
    /\ Settled(i) /\ pc = "Done"

(* C9: records are handled one at a time in source order: at most one       *)
(* publish call is outstanding, it belongs to the record the loop stands    *)
(* on, no stage of a later record has run while it is outstanding, and the  *)
(* stages and the publish calls follow the order of the batch.              *)
C9_Sequential ==
  /\ Cardinality(outstanding) <= 1
  /\ \A c \in outstanding : pc = "AwaitingPublish" /\ calls[c].rec = idx
  /\ pc = "AwaitingPublish" => outstanding = {Len(calls)}
  /\ \A n \in 1..Len(trace) : trace[n].rec <= idx
  /\ \A n, m \in 1..Len(trace) : n < m => trace[n].rec <= trace[m].rec
  /\ \A c, d \in 1..Len(calls) : c < d => calls[c].rec < calls[d].rec

C9_Witness ==
  /\ pc = "AwaitingPublish"
  /\ Len(calls) = 2
  /\ Len(settled) = 1
  /\ outstanding = {2}

(* C10: every invocation reaches Done: as long as it has not, the handler   *)
(* or an outstanding publish call can take a step (each step advances the   *)
(* loop or settles a call, so a handler that is never stuck finishes); and  *)
(* an invocation that aborted never enters ProcessingRecords.               *)
C10_ReachesDone ==
  /\ pc = "Done" \/ ENABLED Next
  /\ (\E n \in 1..Len(logs) : logs[n].msg = "PUBLISH_URL is not defined")
       => pc \in {"Aborted", "Done"} /\ trace = <<>>

(* C11: no retries: every record has at most one publish call, also after  *)
(* that call failed, so the calls never outnumber the records.              *)
C11_NoRetries ==
  /\ \A i \in RecordIds : Cardinality(CallsFor(i)) <= 1
  /\ \A c \in 1..Len(calls) : calls[c].rec \in RecordIds
  /\ Len(calls) <= Len(batch)
  /\ Len(settled) <= Len(calls)
  /\ \A n, m \in 1..Len(settled) : n # m => settled[n].call # settled[m].call

C11_Witness ==
  /\ pc = "Done"
  /\ Len(batch) = 2
  /\ Len(calls) = 1
  /\ calls[1].rec = 1
  /\ Len(settled) = 1
  /\ settled[1].error # NoException

(* C12: for an eligible event transformData returns a TransformedEvent or   *)
(* the failure value and never raises: an eligible record, also one whose   *)
(* nested timestamp cannot be converted to a date, does not end the         *)
(* handler, has no publish call unless its transform succeeded, and is      *)
(* followed by the processing of the later records.                         *)
C12_TransformNeverRaises ==
  \A i \in RecordIds :
    IsEligible(batch[i])
      => /\ ~(pc = "Failed" /\ idx = i)
         /\ HasStage(i, "transform")
              => StageOut(i, "transform").k \in {"object", "null"}
         /\ (Nested(batch[i]) \in BadTimestampNested /\ HasStage(i, "transform"))
              => Settled(i) /\ CallsFor(i) = {}

(* C13: within one record the stages run in the order decode, filter,      *)
(* transform, validate, publish, each at most once; every publish call is   *)
(* preceded for its record by a successful decode, a passed type filter, a  *)
(* successful transform and an acceptance by the validator, and its body is *)
(* the value the validator accepted.                                        *)
StageOrder == <<"decode", "filter", "transform", "schema", "validate", "publish">>

StageArg(i, name) ==
  LET n == CHOOSE m \in 1..Len(trace) : trace[m].rec = i /\ trace[m].stage = name
  IN trace[n].arg

C13_StagesInOrder ==
  \A i \in RecordIds :
    /\ Len(StagesOf(i)) <= Len(StageOrder)
    /\ \A n \in 1..Len(StagesOf(i)) : StageNames(i)[n] = StageOrder[n]
    /\ HasStage(i, "publish") <=> CallsFor(i) # {}
    /\ \A c \in CallsFor(i) :
         /\ StageNames(i) = StageOrder
         /\ batch[i].data.json
         /\ StageOut(i, "decode") = batch[i].data.value
         /\ IsEligible(batch[i])
         /\ StageOut(i, "filter") = JBool(TRUE)
         /\ StageOut(i, "transform").k = "object"
         /\ StageArg(i, "schema") = StageOut(i, "transform")
         /\ StageOut(i, "schema") = JBool(TRUE)
         /\ StageOut(i, "validate") = JBool(TRUE)
         /\ calls[c].data = StageArg(i, "schema")
         /\ StageOut(i, "publish") = calls[c].data

C13_Witness ==
  /\ pc = "Done"
  /\ Len(batch) = 2
  /\ CallsFor(1) = {}
  /\ StageNames(1) = <<"decode", "filter", "transform", "schema", "validate">>
  /\ CallsFor(2) = {1}
  /\ StageNames(2) = StageOrder

(* C14: 'Event published successfully' is logged exactly once for each     *)
(* record whose publish call resolved, only after the call has settled,     *)
(* and never for a record whose call failed or that had no call.            *)
SuccessLogs(i) ==
  {n \in 1..Len(logs) : logs[n].rec = i /\ logs[n].msg = "Event published successfully"}

ResolvedCalls(i) ==
  {n \in 1..Len(settled) : settled[n].call \in CallsFor(i) /\ settled[n].error = NoException}

C14_SuccessLoggedOncePerSuccess ==
  /\ \A i \in RecordIds :
       /\ Cardinality(SuccessLogs(i)) = Cardinality(ResolvedCalls(i))
       /\ Cardinality(SuccessLogs(i)) <= 1
       /\ \A n \in SuccessLogs(i) : logs[n].level = "log"
  /\ \A n \in 1..Len(logs) :
       logs[n].msg = "Event published successfully" => logs[n].rec \in RecordIds

C14_Witness ==
  /\ pc = "Done"
  /\ Len(batch) = 2
  /\ Len(calls) = 2
  /\ Len(settled) = 2
  /\ settled[1].error # NoException
  /\ settled[2].error = NoException
  /\ SuccessLogs(1) = {}
  /\ Cardinality(SuccessLogs(2)) = 1

(* C15: a record that decodes successfully and whose type is not            *)
(* "booking_completed" is skipped silently: it writes no log entry and      *)
(* runs neither the transformer, the validator nor the publisher.           *)
C15_IneligibleSkippedSilently ==
  \A i \in RecordIds :
    (batch[i].data.json /\ DecodedType(batch[i]) # JStr("booking_completed"))
      => /\ LogsOf(i) = <<>>
         /\ \A n \in 1..Len(StagesOf(i)) : StageNames(i)[n] \in {"decode", "filter"}
         /\ ~(pc = "Failed" /\ idx = i)
         /\ HasStage(i, "decode") => Settled(i)

C15_Witness ==
  /\ pc = "Done"
  /\ Len(batch) = 2
  /\ DecodedType(batch[1]) = JStr("other_event")
  /\ Nested(batch[1]) = Undefined
  /\ StageNames(1) = <<"decode", "filter">>
  /\ LogsOf(1) = <<>>
  /\ Len(logs) > 0

(* C16: the outcome of a record depends only on its content and on the     *)
(* validator's verdict on it: once its pipeline has settled it has exactly  *)
(* one publish call, with the body built from it, if it decodes, has type   *)
(* "booking_completed", carries a nested payload and was accepted by the    *)
(* validator, and no call otherwise, whatever happened to earlier records   *)
(* and calls.  When the sink URL is set and the handler finished without a  *)
(* stage raising, every eligible record with a nested payload was put to    *)
(* the validator and the calls number the records the validator accepted.   *)
CarriesNested(record) == IsEligible(record) /\ Truthy(Nested(record))

Accepted(i) == HasStage(i, "schema") /\ StageOut(i, "schema") = JBool(TRUE)

Qualifying(i) == CarriesNested(batch[i]) /\ Accepted(i)

C16_OutcomePerRecord ==
  /\ \A i \in RecordIds :
       Settled(i) => IF Qualifying(i) THEN ExactlyOnePublish(i) ELSE CallsFor(i) = {}
  /\ (pc = "Done" /\ ~UrlUnset /\ thrown = NoException)
       => /\ \A i \in RecordIds : Settled(i)
          /\ \A i \in RecordIds : CarriesNested(batch[i]) => HasStage(i, "schema")
          /\ Len(calls) = Cardinality({i \in RecordIds : Qualifying(i)})

C16_Witness ==
  /\ pc = "Done"
  /\ Len(batch) = 2
  /\ batch[1] = batch[2]
  /\ Nested(batch[1]) = GoodNestedB
  /\ ~Accepted(1)
  /\ Accepted(2)
  /\ Len(calls) = 1
  /\ calls[1].rec = 2
  /\ settled[1].error # NoException

(* C17: a record whose payload is well-formed JSON but no object (null, a   *)
(* number, a boolean, a string, an array) never has a publish call and      *)
(* never raises: it is skipped at the decode check when the value is falsy  *)
(* and at the type filter otherwise, and the loop goes on.                  *)
IsNonObject(record) ==
  record.data.json
    /\ record.data.value.k \in {"null", "number", "boolean", "string", "array"}

C17_NonObjectSkipped ==
  \A i \in RecordIds :
    IsNonObject(batch[i])
      => /\ CallsFor(i) = {}
         /\ ~(pc = "Failed" /\ idx = i)
         /\ HasStage(i, "decode")
              => /\ Settled(i)
                 /\ StageNames(i) = IF batch[i].data.value \in {JNull, JBool(FALSE)}
                                      THEN <<"decode">>
                                      ELSE <<"decode", "filter">>

C17_Witness ==
  /\ pc = "Done"
  /\ Len(batch) = 2
  /\ batch[1].data.value = JStr("booking_completed")
  /\ StageNames(1) = <<"decode", "filter">>
  /\ batch[2].data.json /\ batch[2].data.value = JNull
  /\ StageNames(2) = <<"decode">>
  /\ calls = <<>>

====
